---- MODULE Spec2Model ----
(***************************************************************************)
(* Model of the scraping core of the wiki backend:                         *)
(*   - BaseScraper.fetch / _apply_rate_limit  (scrapers/base_scraper.py)   *)
(*   - the per-kind scrapers' scrape loops    (scrapers/*_scraper.py)      *)
(*   - DataStorageService                     (scrapers/data_storage.py)   *)
(*   - the background run tasks               (api/scraper.py)             *)
(*                                                                         *)
(* Three specifications share the module:                                  *)
(*   Spec      : scraping runs and direct store_* calls against one table  *)
(*   SpecInfra : scraping runs with an unreachable database, cancellation  *)
(*               and crashes                                               *)
(*   SpecFetch : the retry loop of BaseScraper.fetch                       *)
(***************************************************************************)
EXTENDS Integers, Sequences, FiniteSets, TLC

(***************************************************************************)
(* Bounds of the model.                                                    *)
(***************************************************************************)
MaxTargets == 2
MaxRuns == 3
MaxFetches == 2
MaxRetriesCfg == 3

(***************************************************************************)
(* Python values.  Attribute values are integer codes: Null is None,       *)
(* Absent is a key missing from the dict, 0 is a falsy observed value      *)
(* (0, "", [] or {}), any positive code is a truthy value.                 *)
(***************************************************************************)
Null == -1
Absent == -2

\* dict.get(f): a missing key reads as None
Get(d, f) == IF d[f] = Absent THEN Null ELSE d[f]

\* dict.get(f, dflt)
GetDefault(d, f, dflt) == IF d[f] = Absent THEN dflt ELSE d[f]

\* Python truthiness of a value read with get()
Truthy(v) == v /= Null /\ v /= Absent /\ v /= 0

Kinds == {"character", "weapon", "artifact"}
Names == {"Alpha", "Beta"}

\* a persisted row, and the absence of one
NoRow == [exists |-> FALSE]
MkRow(a, t) == [exists |-> TRUE, attrs |-> a, updated_at |-> t]

(***************************************************************************)
(* Weapons                                                                 *)
(***************************************************************************)
WeaponFields ==
    {"name_en", "weapon_type", "rarity", "base_attack", "secondary_stat",
     "secondary_stat_value", "description", "passive_name",
     "passive_description", "source"}

\* WeaponCompare as it would be if base_attack were not compared
WeaponCompare_NoAttack == {"rarity", "weapon_type", "description"}

\* fields_to_compare of _weapon_has_changes
WeaponCompare == {"rarity", "weapon_type", "base_attack", "description"}

\* nullable=False columns of the weapons table that _create_weapon fills
WeaponNotNull == {"weapon_type", "rarity", "base_attack"}

\* _weapon_has_changes as it would be if every attribute were compared
_weapon_has_changes_AnyField(existing, new_data) ==
    \E f \in DOMAIN existing :
        Get(new_data, f) /= Null /\ Get(new_data, f) /= existing[f]

_weapon_has_changes(existing, new_data) ==
    \E f \in WeaponCompare :
        Get(new_data, f) /= Null /\ Get(new_data, f) /= existing[f]

_create_weapon(weapon_data) == [f \in WeaponFields |-> Get(weapon_data, f)]

_update_weapon(existing, new_data) ==
    [f \in WeaponFields |->
        IF Truthy(Get(new_data, f)) THEN Get(new_data, f) ELSE existing[f]]

(***************************************************************************)
(* Characters.  base_stats is a dict with the keys hp/atk/def; the model   *)
(* keeps the three entries as attributes of their own and "base_stats" as  *)
(* a marker: Absent (no such key), Null (None) or 1 (a dict).              *)
(***************************************************************************)
StatKeys == {"hp", "atk", "def"}

CharacterScalars ==
    {"name_en", "rarity", "element", "weapon_type", "region", "description"}

CharacterCompare ==
    {"rarity", "element", "weapon_type", "region", "description"}

CharacterColumns == CharacterScalars \cup StatKeys \cup {"ascension_stats"}

CharacterFields == CharacterColumns \cup {"base_stats"}

CharacterNotNull == {"element", "weapon_type", "rarity"}

\* bool(new_data.get("base_stats", {})): a dict with at least one key
BaseStatsTruthy(new_data) ==
    /\ new_data["base_stats"] = 1
    /\ \E s \in StatKeys : new_data[s] /= Absent

_character_has_changes(existing, new_data) ==
    \/ \E f \in CharacterCompare :
          Get(new_data, f) /= Null /\ Get(new_data, f) /= existing[f]
    \/ /\ BaseStatsTruthy(new_data)
       /\ \E s \in StatKeys :
             Truthy(Get(new_data, s)) /\ Get(new_data, s) /= existing[s]

\* char_data.get("base_stats", {}).get(...) raises AttributeError on None
_create_character_raises(char_data) == char_data["base_stats"] = Null

_create_character(char_data) ==
    [f \in CharacterColumns |->
        IF f = "ascension_stats"
        THEN (IF Truthy(Get(char_data, f)) THEN Get(char_data, f) ELSE Null)
        ELSE Get(char_data, f)]

_update_character(existing, new_data) ==
    [f \in CharacterColumns |->
        IF f \in StatKeys
        THEN (IF BaseStatsTruthy(new_data) THEN Get(new_data, f)
              ELSE existing[f])
        ELSE (IF Truthy(Get(new_data, f)) THEN Get(new_data, f)
              ELSE existing[f])]

(***************************************************************************)
(* Artifact sets.  tags and pieces are lists: code 0 is the empty list,    *)
(* distinct positive codes are lists with distinct contents.               *)
(***************************************************************************)
ArtifactFields ==
    {"name_en", "tags", "max_rarity", "two_piece_bonus", "four_piece_bonus",
     "description", "source", "domain_name", "pieces"}

ArtifactNotNull == {"max_rarity"}

\* default=5 of the max_rarity column, and of _create_artifact_set
DefaultMaxRarity == 5

\* len() of a pieces list: every non-empty list of the model has 5 pieces
PiecesLen(v) == IF v = 0 THEN 0 ELSE 5

\* "true", "false", or "raise" (set(None) / len(None) is a TypeError)
_artifact_set_has_changes(existing, new_data) ==
    LET new_tags == GetDefault(new_data, "tags", 0)
        existing_tags == IF Truthy(existing["tags"]) THEN existing["tags"] ELSE 0
        new_pieces == GetDefault(new_data, "pieces", 0)
        differs(f) == Truthy(Get(new_data, f)) /\ Get(new_data, f) /= existing[f]
    IN  IF differs("max_rarity") THEN "true"
        ELSE IF new_tags = Null THEN "raise"
        ELSE IF new_tags /= existing_tags THEN "true"
        ELSE IF differs("description") THEN "true"
        ELSE IF differs("two_piece_bonus") THEN "true"
        ELSE IF differs("four_piece_bonus") THEN "true"
        ELSE IF new_pieces = Null \/ existing["pieces"] = Null THEN "raise"
        ELSE IF PiecesLen(new_pieces) /= PiecesLen(existing["pieces"]) THEN "true"
        ELSE "false"

_create_artifact_set(artifact_data) ==
    [f \in ArtifactFields |->
        IF f \in {"tags", "pieces"} THEN GetDefault(artifact_data, f, 0)
        ELSE IF f = "max_rarity"
             THEN GetDefault(artifact_data, f, DefaultMaxRarity)
        ELSE Get(artifact_data, f)]

_update_artifact_set(existing, new_data) ==
    [f \in ArtifactFields |->
        IF Truthy(Get(new_data, f)) THEN Get(new_data, f) ELSE existing[f]]

(***************************************************************************)
(* Dispatch on the entity kind                                             *)
(***************************************************************************)
Fields(k) ==
    IF k = "weapon" THEN WeaponFields
    ELSE IF k = "character" THEN CharacterFields
    ELSE ArtifactFields

NotNull(k) ==
    IF k = "weapon" THEN WeaponNotNull
    ELSE IF k = "character" THEN CharacterNotNull
    ELSE ArtifactNotNull

HasChanges(k, existing, new_data) ==
    IF k = "weapon"
    THEN (IF _weapon_has_changes(existing, new_data) THEN "true" ELSE "false")
    ELSE IF k = "character"
    THEN (IF _character_has_changes(existing, new_data) THEN "true" ELSE "false")
    ELSE _artifact_set_has_changes(existing, new_data)

CreateRaises(k, new_data) ==
    k = "character" /\ _create_character_raises(new_data)

Create(k, new_data) ==
    IF k = "weapon" THEN _create_weapon(new_data)
    ELSE IF k = "character" THEN _create_character(new_data)
    ELSE _create_artifact_set(new_data)

Update(k, existing, new_data) ==
    IF k = "weapon" THEN _update_weapon(existing, new_data)
    ELSE IF k = "character" THEN _update_character(existing, new_data)
    ELSE _update_artifact_set(existing, new_data)

(***************************************************************************)
(* _store_single_character / _store_single_weapon /                        *)
(* _store_single_artifact_set.  v is the session's view of the persistent  *)
(* rows (the identity map over the committed table), p the objects handed  *)
(* to db.add() and not yet flushed.  The session is made with              *)
(* autoflush=False, so the SELECT does not see p.  The result names the    *)
(* counter that is incremented; "errors" stands for an exception caught    *)
(* by the loop of store_*.                                                 *)
(***************************************************************************)
StoreSingle(k, v, p, data, t) ==
    LET name == data.name
        a == data.attrs
        same == [cls |-> "skipped", view |-> v, pending |-> p, after |-> NoRow]
    IN  IF name = "" THEN same
        ELSE IF v[name].exists
        THEN LET hc == HasChanges(k, v[name].attrs, a)
                 row == MkRow(Update(k, v[name].attrs, a), t)
             IN  IF hc = "raise"
                 THEN [same EXCEPT !.cls = "errors", !.after = v[name]]
                 ELSE IF hc = "true"
                 THEN [cls |-> "updated", view |-> [v EXCEPT ![name] = row],
                       pending |-> p, after |-> row]
                 ELSE [same EXCEPT !.after = v[name]]
        ELSE IF CreateRaises(k, a)
             THEN [same EXCEPT !.cls = "errors"]
             ELSE LET row == MkRow(Create(k, a), t)
                  IN  [cls |-> "created", view |-> v,
                       pending |-> Append(p, [name |-> name, row |-> row]),
                       after |-> row]

(***************************************************************************)
(* await self.db.commit(): the flush sends every pending INSERT and every  *)
(* changed row in one transaction.  A NOT NULL column left None or a       *)
(* duplicate of the unique name makes the flush raise IntegrityError and   *)
(* the whole transaction is rolled back.                                   *)
(***************************************************************************)
\* a column default applies to an attribute left None (max_rarity)
InsertRow(k, row) ==
    IF k = "artifact" /\ row.attrs["max_rarity"] = Null
    THEN [row EXCEPT !.attrs["max_rarity"] = DefaultMaxRarity]
    ELSE row

CommitFails(k, table, p) ==
    \/ \E i \in 1..Len(p) :
          \E f \in NotNull(k) : InsertRow(k, p[i].row).attrs[f] = Null
    \/ \E i \in 1..Len(p) : table[p[i].name].exists
    \/ \E i, j \in 1..Len(p) : i < j /\ p[i].name = p[j].name

\* Committed as it would be if the commit kept only the rows of the batch
Committed_OnlyInserted(k, table, v, p) ==
    [n \in Names |->
        IF \E i \in 1..Len(p) : p[i].name = n
        THEN InsertRow(k, p[CHOOSE i \in 1..Len(p) : p[i].name = n].row)
        ELSE NoRow]

Committed(k, table, v, p) ==
    IF CommitFails(k, table, p) THEN table
    ELSE [n \in Names |->
            IF \E i \in 1..Len(p) : p[i].name = n
            THEN InsertRow(k, p[CHOOSE i \in 1..Len(p) : p[i].name = n].row)
            ELSE v[n]]

(***************************************************************************)
(* Documents and extractors.  A document is what fetch() returned for a    *)
(* target: whether the expected container is there (div.YSCard,            *)
(* table.wikitable, div.attribute), whether extraction raises, and the     *)
(* attribute values the page shows.                                        *)
(***************************************************************************)
WeaponBlank == [f \in WeaponFields |-> Null]

CharacterBlank ==
    [f \in CharacterFields |->
        IF f = "base_stats" THEN 1
        ELSE IF f \in StatKeys THEN Absent
        ELSE IF f = "ascension_stats" THEN 0
        ELSE Null]

ArtifactBlank ==
    [f \in ArtifactFields |->
        IF f = "max_rarity" THEN DefaultMaxRarity
        ELSE IF f \in {"tags", "pieces"} THEN 0
        ELSE IF f \in {"source", "domain_name"} THEN Absent
        ELSE Null]

Blank(k) ==
    IF k = "weapon" THEN WeaponBlank
    ELSE IF k = "character" THEN CharacterBlank
    ELSE ArtifactBlank

Overlay(base, obs) ==
    [f \in DOMAIN base |-> IF f \in DOMAIN obs THEN obs[f] ELSE base[f]]

MkDoc(obs) == [container |-> TRUE, raises |-> FALSE, obs |-> obs]
MalformedDoc == [container |-> FALSE, raises |-> FALSE, obs |-> <<>>]
RaisingDoc == [container |-> TRUE, raises |-> TRUE, obs |-> <<>>]

\* _extract_weapon_data / _extract_character_data / _extract_artifact_data
ExtractData(k, doc, name) ==
    [name |-> name,
     attrs |-> IF doc.container THEN Overlay(Blank(k), doc.obs) ELSE Blank(k)]

WeaponDocs ==
    { MkDoc([weapon_type |-> 1, rarity |-> 5, base_attack |-> 46]),
      MkDoc([weapon_type |-> 1, rarity |-> 5, base_attack |-> 48]),
      MkDoc([weapon_type |-> 1, rarity |-> 5, base_attack |-> 0]),
      MkDoc([weapon_type |-> 1, rarity |-> 5, base_attack |-> 46,
             secondary_stat |-> 1]),
      MkDoc([rarity |-> 5, base_attack |-> 46]) }

CharacterDocs ==
    { MkDoc([rarity |-> 5, element |-> 1, weapon_type |-> 1,
             hp |-> 1, atk |-> 2, def |-> 3]),
      MkDoc([rarity |-> 5, element |-> 1, weapon_type |-> 1, hp |-> 4]),
      MkDoc([rarity |-> 4, element |-> 1, weapon_type |-> 1,
             hp |-> 1, atk |-> 2, def |-> 3]) }

ArtifactDocs ==
    { MkDoc([tags |-> 1, two_piece_bonus |-> 1, pieces |-> 1]),
      MkDoc([max_rarity |-> 4, tags |-> 2, two_piece_bonus |-> 1,
             pieces |-> 2]) }

Docs(k) ==
    (IF k = "weapon" THEN WeaponDocs
     ELSE IF k = "character" THEN CharacterDocs
     ELSE ArtifactDocs) \cup {MalformedDoc, RaisingDoc}

\* records a caller can hand to store_* directly: a dict with the name
\* only, and one with every attribute None
DirectRecords(k) ==
    { [f \in Fields(k) |-> Absent], [f \in Fields(k) |-> Null] }

(***************************************************************************)
(* State                                                                   *)
(***************************************************************************)
VARIABLES
    kind,         \* the table the behaviour is about (the tables are independent)
    db,           \* committed rows of that table, by natural key
    view,         \* the session's persistent objects, with unflushed changes
    pending,      \* objects given to db.add(), not flushed
    pc,           \* "idle", "scrape", "store" or "commit"
    mode,         \* "run" (run_*_scraping) or "direct" (a bare store_* call)
    targets,      \* the names passed to scrape()
    idx,          \* position of the scrape / store loop
    scraped,      \* the list scrape() builds, then the argument of store_*
    stats,        \* DataStorageService._stats
    returned,     \* what the last store_* call returned, or why it did not
    last_result,  \* _scraper_status["last_result"]
    runs,         \* number of runs and store calls started
    last,         \* per name, the latest reconcile of that name
    cur,          \* the name reconciled last in the current call, or ""
    outcomes,     \* per target of the current run: "nofetch", "raised",
                  \* "malformed" or "ok"
    db_up,        \* the database answers (else every statement raises)
    fpc,          \* fetch(): "idle" or "attempt"
    max_retries,  \* ScraperConfig.max_retries
    attempt,      \* loop variable of the retry loop
    events,       \* what the current / latest fetch() did, in order
    fresult,      \* "pending", "text" or "None"
    last_request_time, \* BaseScraper._last_request_time is set
    request_count,     \* BaseScraper._request_count
    error_count,       \* BaseScraper._error_count
    scraper_stats,     \* _stats of CharacterScraper / WeaponScraper / ArtifactScraper
    http,         \* HTTP attempts made and attempts failed, over all fetch() calls
    fetches,      \* number of fetch() calls started
    cell,         \* the text of a table cell given to an extractor
    parsed,       \* what the extractors made of the cell
    is_running,   \* _scraper_status["is_running"]
    current_task, \* _scraper_status["current_task"]
    tasks,        \* the background tasks of the accepted triggers, in order
    persisted,    \* per kind: the key the tasks scrape is in the table
    last_response \* status of the latest trigger request

runVars ==
    <<kind, db, view, pending, pc, mode, targets, idx, scraped, stats,
      returned, last_result, runs, last, cur, outcomes, db_up>>

fetchVars ==
    <<fpc, max_retries, attempt, events, fresult, last_request_time,
      request_count, error_count, scraper_stats, http, fetches>>

parseVars == <<cell, parsed>>

apiVars == <<is_running, current_task, tasks, persisted, last_response>>

vars == <<runVars, fetchVars, parseVars, apiVars>>

ZeroStats == [created |-> 0, updated |-> 0, skipped |-> 0, errors |-> 0]
NoEvent == [cls |-> "none"]
NoResult == [success |-> "none"]
NotReturned == [outcome |-> "none"]

TargetLists ==
    UNION { [1..n -> Names] : n \in 1..MaxTargets }

InitRun ==
    /\ db = [n \in Names |-> NoRow]
    /\ view = db
    /\ pending = <<>>
    /\ pc = "idle"
    /\ mode = "run"
    /\ targets = <<>>
    /\ idx = 1
    /\ scraped = <<>>
    /\ stats = ZeroStats
    /\ returned = NotReturned
    /\ last_result = NoResult
    /\ runs = 0
    /\ last = [n \in Names |-> NoEvent]
    /\ cur = ""
    /\ outcomes = <<>>
    /\ db_up = TRUE

NotParsed == [done |-> FALSE]

InitParse ==
    /\ cell = <<>>
    /\ parsed = NotParsed

InitApi ==
    /\ is_running = FALSE
    /\ current_task = "None"
    /\ tasks = <<>>
    /\ persisted = [k \in Kinds |-> FALSE]
    /\ last_response = "none"

InitFetch ==
    /\ fpc = "idle"
    /\ max_retries \in 1..MaxRetriesCfg
    /\ attempt = 0
    /\ events = <<>>
    /\ fresult = "pending"
    /\ last_request_time = FALSE
    /\ request_count = 0
    /\ error_count = 0
    /\ scraper_stats = [requests |-> 0, errors |-> 0]
    /\ http = [attempts |-> 0, failures |-> 0]
    /\ fetches = 0

(***************************************************************************)
(* run_character_scraping / run_weapon_scraping / run_artifact_scraping:   *)
(* the task starts with a fresh scraper, DataStorageService and session.   *)
(***************************************************************************)
StartRun ==
    /\ pc = "idle"
    /\ runs < MaxRuns
    /\ \E names \in TargetLists : targets' = names
    /\ pc' = "scrape"
    /\ mode' = "run"
    /\ idx' = 1
    /\ scraped' = <<>>
    /\ stats' = ZeroStats
    /\ returned' = NotReturned
    /\ view' = db
    /\ pending' = <<>>
    /\ runs' = runs + 1
    /\ cur' = ""
    /\ outcomes' = <<>>
    /\ UNCHANGED <<kind, db, last_result, last, db_up>>
    /\ UNCHANGED <<fetchVars, parseVars, apiVars>>

(***************************************************************************)
(* One iteration of the loop of scrape(): scrape_weapon / scrape_character *)
(* / scrape_artifact_set for targets[idx].  fetch() gives None or a        *)
(* document; a document whose extraction raises gives None as well; a      *)
(* record is appended only when one is returned.  No counter of the run    *)
(* changes for a target that gives None.                                   *)
(***************************************************************************)
ScrapeTarget ==
    /\ pc = "scrape"
    /\ idx <= Len(targets)
    /\ \E fetched \in BOOLEAN :
         IF ~fetched
         THEN /\ scraped' = scraped
              /\ outcomes' = Append(outcomes, "nofetch")
         ELSE \E doc \in Docs(kind) :
                 /\ scraped' = IF doc.raises THEN scraped
                               ELSE Append(scraped,
                                           ExtractData(kind, doc, targets[idx]))
                 /\ outcomes' = Append(outcomes,
                                       IF doc.raises THEN "raised"
                                       ELSE IF doc.container THEN "ok"
                                       ELSE "malformed")
    /\ idx' = idx + 1
    /\ UNCHANGED <<kind, db, view, pending, pc, mode, targets, stats, returned,
                   last_result, runs, last, cur, db_up>>
    /\ UNCHANGED <<fetchVars, parseVars, apiVars>>

\* scrape() returns and store_* starts; store_weapons and store_artifacts
\* call reset_stats(), store_characters does not
ResetOnStore(k, st) == IF k = "character" THEN st ELSE ZeroStats

BeginStore ==
    /\ pc = "scrape"
    /\ idx > Len(targets)
    /\ pc' = "store"
    /\ idx' = 1
    /\ stats' = ResetOnStore(kind, stats)
    /\ UNCHANGED <<kind, db, view, pending, mode, targets, scraped, returned,
                   last_result, runs, last, cur, outcomes, db_up>>
    /\ UNCHANGED <<fetchVars, parseVars, apiVars>>

(***************************************************************************)
(* A caller other than the run task hands a batch to store_* of the        *)
(* service object at hand (its _stats are kept).                           *)
(***************************************************************************)
DirectBatches ==
    UNION { [1..n -> { [name |-> nm, attrs |-> a] :
                          nm \in Names, a \in DirectRecords(kind) }] :
            n \in 1..MaxTargets }

CallStore ==
    /\ pc = "idle"
    /\ runs < MaxRuns
    /\ \E batch \in DirectBatches : scraped' = batch
    /\ pc' = "store"
    /\ mode' = "direct"
    /\ targets' = <<>>
    /\ idx' = 1
    /\ stats' = ResetOnStore(kind, stats)
    /\ returned' = NotReturned
    /\ view' = db
    /\ pending' = <<>>
    /\ runs' = runs + 1
    /\ cur' = ""
    /\ outcomes' = <<>>
    /\ UNCHANGED <<kind, db, last_result, last, db_up>>
    /\ UNCHANGED <<fetchVars, parseVars, apiVars>>

(***************************************************************************)
(* One iteration of the loop of store_*: _store_single_* inside try,       *)
(* except Exception counts an error.  With the database unreachable the    *)
(* SELECT of _store_single_* raises, which is counted like any other       *)
(* error of the record.                                                    *)
(***************************************************************************)
StoreRecord ==
    /\ pc = "store"
    /\ idx <= Len(scraped)
    /\ LET data == scraped[idx]
           before == view[data.name]
           r == IF db_up THEN StoreSingle(kind, view, pending, data, runs)
                ELSE [cls |-> "errors", view |-> view, pending |-> pending,
                      after |-> before]
       IN  /\ view' = r.view
           /\ pending' = r.pending
           /\ stats' = [stats EXCEPT ![r.cls] = @ + 1]
           /\ last' = [last EXCEPT ![data.name] =
                          [cls |-> r.cls, rec |-> data.attrs, run |-> runs,
                           mode |-> mode, before |-> before,
                           after |-> r.after, infra |-> ~db_up]]
           /\ cur' = data.name
    /\ idx' = idx + 1
    /\ UNCHANGED <<kind, db, pc, mode, targets, scraped, returned, last_result,
                   runs, outcomes, db_up>>
    /\ UNCHANGED <<fetchVars, parseVars, apiVars>>

(***************************************************************************)
(* The end of store_*: commit, then return self._stats.copy().  When the   *)
(* commit raises, store_* raises; in a run the task's except branch        *)
(* records the failure, else its try body records the statistics; the      *)
(* finally branch ends the run either way.  With the database unreachable *)
(* a commit that has something to flush raises; one that has nothing to    *)
(* flush may raise or pass.                                                *)
(***************************************************************************)
CommitReturn ==
    /\ pc = "store"
    /\ idx > Len(scraped)
    /\ \E raised \in BOOLEAN :
       LET dirty == pending /= <<>> \/ view /= db
           fails == \/ CommitFails(kind, db, pending)
                    \/ ~db_up /\ (dirty \/ raised)
       IN  /\ raised => (~db_up /\ ~dirty)
           /\ db' = IF fails THEN db ELSE Committed(kind, db, view, pending)
           /\ returned' = IF fails THEN [outcome |-> "raised"]
                          ELSE [outcome |-> "stats", stats |-> stats]
           /\ last_result' =
                 IF mode /= "run" THEN last_result
                 ELSE IF fails THEN [success |-> "false"]
                 ELSE [success |-> "true", storage_stats |-> stats,
                       total |-> Len(scraped), requested |-> Len(targets)]
    /\ view' = db'
    /\ pending' = <<>>
    /\ pc' = "idle"
    /\ UNCHANGED <<kind, mode, targets, idx, scraped, stats, runs, last, cur,
                   outcomes, db_up>>
    /\ UNCHANGED <<fetchVars, parseVars, apiVars>>

(***************************************************************************)
(* What the environment can do to a run or store_* call in progress.       *)
(***************************************************************************)
\* the database becomes unreachable: from here on every statement of the
\* session raises (scrape() makes no statement, so the loss is first met
\* in store_*)
DbUnreachable ==
    /\ pc = "store"
    /\ db_up
    /\ db_up' = FALSE
    /\ UNCHANGED <<kind, db, view, pending, pc, mode, targets, idx, scraped,
                   stats, returned, last_result, runs, last, cur, outcomes>>
    /\ UNCHANGED <<fetchVars, parseVars, apiVars>>

\* the run task is cancelled: asyncio.CancelledError is a BaseException, so
\* neither the except Exception of the store loop nor that of the run task
\* catches it; only the finally branch runs, store_* never reaches its
\* commit and the session is closed with its transaction rolled back; the
\* task's scraper and DataStorageService go with it
Cancel ==
    /\ pc \in {"scrape", "store"}
    /\ mode = "run"
    /\ pc' = "idle"
    /\ returned' = [outcome |-> "cancelled"]
    /\ view' = db
    /\ pending' = <<>>
    /\ targets' = <<>>
    /\ idx' = 1
    /\ scraped' = <<>>
    /\ stats' = ZeroStats
    /\ outcomes' = <<>>
    /\ UNCHANGED <<kind, db, mode, last_result, runs, last, cur, db_up>>
    /\ UNCHANGED <<fetchVars, parseVars, apiVars>>

\* the process dies: what was not committed is gone, and so is the
\* process-local _scraper_status
Crash ==
    /\ pc \in {"scrape", "store"}
    /\ pc' = "idle"
    /\ returned' = [outcome |-> "crashed"]
    /\ last_result' = NoResult
    /\ view' = db
    /\ pending' = <<>>
    /\ targets' = <<>>
    /\ idx' = 1
    /\ scraped' = <<>>
    /\ stats' = ZeroStats
    /\ outcomes' = <<>>
    /\ UNCHANGED <<kind, db, mode, runs, last, cur, db_up>>
    /\ UNCHANGED <<fetchVars, parseVars, apiVars>>

(***************************************************************************)
(* BaseScraper.fetch.  Times are whole seconds.                            *)
(***************************************************************************)
\* ScraperConfig defaults
RequestsPerSecond == 1
MinDelaySeconds == 1
MaxDelaySeconds == 3
RetryDelaySeconds == 2
RetryBackoffFactor == 2

\* largest elapsed time since the previous request that the model draws
MaxElapsed == 2

RECURSIVE Pow(_, _)
Pow(b, e) == IF e = 0 THEN 1 ELSE b * Pow(b, e - 1)

Ev(type, val) == [type |-> type, val |-> val]

\* _apply_rate_limit: sleeps only when a previous request is on record and
\* less than 1/requests_per_second has passed since; the event carries the
\* time slept
_apply_rate_limit(lrt, elapsed, jitter) ==
    LET required_delay == 1 \div RequestsPerSecond
    IN  IF lrt /\ elapsed < required_delay
        THEN <<Ev("wait", (required_delay - elapsed) + jitter)>>
        ELSE <<Ev("wait", 0)>>

\* BackoffDelay as it would be if the delay did not grow with the attempt
BackoffDelay_Constant(a) == RetryDelaySeconds * RetryBackoffFactor

\* delay before the retry that follows failed attempt number a
BackoffDelay(a) == RetryDelaySeconds * Pow(RetryBackoffFactor, a)

\* lines 171-186: session start, the one rate-limit call, the headers
FetchBegin ==
    /\ fpc = "idle"
    /\ fetches < MaxFetches
    /\ \E elapsed \in 0..MaxElapsed, jitter \in MinDelaySeconds..MaxDelaySeconds :
          events' = _apply_rate_limit(last_request_time, elapsed, jitter)
    /\ last_request_time' = TRUE
    /\ attempt' = 0
    /\ fresult' = "pending"
    /\ fpc' = "attempt"
    /\ fetches' = fetches + 1
    /\ UNCHANGED <<max_retries, request_count, error_count, scraper_stats, http>>
    /\ UNCHANGED <<runVars, parseVars, apiVars>>

\* lines 195-212: a 2xx response
AttemptOk ==
    /\ fpc = "attempt"
    /\ attempt < max_retries
    /\ events' = events \o <<Ev("attempt", attempt), Ev("ok", attempt)>>
    /\ request_count' = request_count + 1
    /\ http' = [http EXCEPT !.attempts = @ + 1]
    /\ fresult' = "text"
    /\ fpc' = "idle"
    /\ UNCHANGED <<max_retries, attempt, last_request_time, error_count,
                   scraper_stats, fetches>>
    /\ UNCHANGED <<runVars, parseVars, apiVars>>

\* AttemptClientError as it would be if the retry went through the rate
\* limiter again
AttemptClientError_RateLimited ==
    /\ fpc = "attempt"
    /\ attempt < max_retries
    /\ error_count' = error_count + 1
    /\ IF attempt < max_retries - 1
       THEN /\ events' = events \o <<Ev("attempt", attempt),
                                     Ev("client_error", attempt),
                                     Ev("backoff", BackoffDelay(attempt)),
                                     Ev("wait", 0)>>
            /\ attempt' = attempt + 1
            /\ UNCHANGED <<fresult, fpc>>
       ELSE /\ events' = events \o <<Ev("attempt", attempt),
                                     Ev("client_error", attempt)>>
            /\ fresult' = "None"
            /\ fpc' = "idle"
            /\ UNCHANGED attempt
    /\ http' = [attempts |-> http.attempts + 1, failures |-> http.failures + 1]
    /\ UNCHANGED <<max_retries, last_request_time, request_count, scraper_stats,
                   fetches>>
    /\ UNCHANGED <<runVars, parseVars, apiVars>>

\* lines 214-229: aiohttp.ClientError (connection error, non-2xx status)
AttemptClientError ==
    /\ fpc = "attempt"
    /\ attempt < max_retries
    /\ error_count' = error_count + 1
    /\ IF attempt < max_retries - 1
       THEN /\ events' = events \o <<Ev("attempt", attempt),
                                     Ev("client_error", attempt),
                                     Ev("backoff", BackoffDelay(attempt))>>
            /\ attempt' = attempt + 1
            /\ UNCHANGED <<fresult, fpc>>
       ELSE /\ events' = events \o <<Ev("attempt", attempt),
                                     Ev("client_error", attempt)>>
            /\ fresult' = "None"
            /\ fpc' = "idle"
            /\ UNCHANGED attempt
    /\ http' = [attempts |-> http.attempts + 1, failures |-> http.failures + 1]
    /\ UNCHANGED <<max_retries, last_request_time, request_count, scraper_stats,
                   fetches>>
    /\ UNCHANGED <<runVars, parseVars, apiVars>>

\* AttemptOtherError as it would be if the exception were let through to
\* the caller of fetch()
AttemptOtherError_Propagates ==
    /\ fpc = "attempt"
    /\ attempt < max_retries
    /\ error_count' = error_count + 1
    /\ events' = events \o <<Ev("attempt", attempt), Ev("error", attempt)>>
    /\ http' = [attempts |-> http.attempts + 1, failures |-> http.failures + 1]
    /\ fresult' = "raised"
    /\ fpc' = "idle"
    /\ UNCHANGED <<max_retries, attempt, last_request_time, request_count,
                   scraper_stats, fetches>>
    /\ UNCHANGED <<runVars, parseVars, apiVars>>

\* lines 231-234: any other exception, such as the asyncio.TimeoutError of
\* ClientTimeout(total=...), which is not an aiohttp.ClientError
AttemptOtherError ==
    /\ fpc = "attempt"
    /\ attempt < max_retries
    /\ error_count' = error_count + 1
    /\ events' = events \o <<Ev("attempt", attempt), Ev("error", attempt)>>
    /\ http' = [attempts |-> http.attempts + 1, failures |-> http.failures + 1]
    /\ fresult' = "None"
    /\ fpc' = "idle"
    /\ UNCHANGED <<max_retries, attempt, last_request_time, request_count,
                   scraper_stats, fetches>>
    /\ UNCHANGED <<runVars, parseVars, apiVars>>

\* get_stats() of the three scrapers: a copy of their own _stats, which
\* fetch() never touches (it counts in _request_count and _error_count)
get_stats == scraper_stats

NextFetch ==
    \/ FetchBegin
    \/ AttemptOk
    \/ AttemptClientError
    \/ AttemptOtherError

(***************************************************************************)
(* Numeric cells.  A cell text is a sequence of one-character strings.     *)
(***************************************************************************)
MaxLen == 5

Digits == {"1", "2", "3", "4"}
Alphabet == Digits \cup {",", ".", "%"}

Cells == UNION { [1..n -> Alphabet] : n \in 0..MaxLen }

DigitVal(c) == IF c = "1" THEN 1 ELSE IF c = "2" THEN 2 ELSE IF c = "3" THEN 3 ELSE 4

\* int() of a string of digits
RECURSIVE ToInt(_)
ToInt(ds) ==
    IF ds = <<>> THEN 0
    ELSE ToInt(SubSeq(ds, 1, Len(ds) - 1)) * 10 + DigitVal(ds[Len(ds)])

\* a number: its integer part and the digits after the point; NoNumber is
\* the field left as it was (None)
Num(whole, frac) == [t |-> "num", whole |-> whole, frac |-> frac]
NoNumber == [t |-> "None"]

\* re.search(r"([S]+)", text).group(1): the first maximal run of characters
\* of S, or <<>> when there is no match
FirstRun(text, S) ==
    IF \A i \in DOMAIN text : text[i] \notin S THEN <<>>
    ELSE LET b == CHOOSE i \in DOMAIN text :
                     text[i] \in S /\ \A j \in 1..(i - 1) : text[j] \notin S
             e == CHOOSE i \in b..Len(text) :
                     /\ \A j \in b..i : text[j] \in S
                     /\ (i = Len(text) \/ text[i + 1] \notin S)
         IN  SubSeq(text, b, e)

\* text.replace(c, "") for every c of C
Remove(text, C) == SelectSeq(text, LAMBDA c : c \notin C)

\* float(m) if "." in m else int(m), for m made of digits and points;
\* float() raises ValueError on more than one point and on a lone point
PyNumber(m) ==
    LET points == {i \in DOMAIN m : m[i] = "."}
    IN  IF points = {} THEN Num(ToInt(m), <<>>)
        ELSE IF Cardinality(points) > 1 \/ Len(m) = 1 THEN NoNumber
        ELSE LET p == CHOOSE i \in points : TRUE
             IN  Num(ToInt(SubSeq(m, 1, p - 1)), SubSeq(m, p + 1, Len(m)))

\* WeaponScraper._extract_stats, base attack: int() of the first run of
\* digits of the cell
ParseBaseAttack(text) ==
    IF text = <<>> \/ text = <<"-">> THEN NoNumber
    ELSE LET m == FirstRun(text, Digits)
         IN  IF m = <<>> THEN NoNumber ELSE Num(ToInt(m), <<>>)

\* WeaponScraper._extract_stats, secondary stat: the first run of digits
\* and points of the cell, kept as a string
ParseSecondaryStatValue(text) == FirstRun(text, Digits \cup {"."})

\* CharacterScraper._extract_stats: percent signs, commas and spaces are
\* removed before the first run of digits and points is converted
ParseStatValue(text) ==
    IF text = <<>> \/ text = <<"-">> THEN NoNumber
    ELSE LET value_clean == Remove(text, {"%", ",", " "})
             m == FirstRun(value_clean, Digits \cup {"."})
         IN  IF m = <<>> THEN NoNumber ELSE PyNumber(m)

\* the extractors read a cell
ExtractStats ==
    /\ ~parsed.done
    /\ parsed' = [done |-> TRUE,
                  base_attack |-> ParseBaseAttack(cell),
                  secondary_stat_value |-> ParseSecondaryStatValue(cell),
                  stat |-> ParseStatValue(cell)]
    /\ UNCHANGED cell
    /\ UNCHANGED <<runVars, fetchVars, apiVars>>

NextParse == ExtractStats

(***************************************************************************)
(* The trigger endpoints and their background tasks (api/scraper.py).      *)
(* Every task scrapes the same one natural key of its kind and stores the  *)
(* record through a session of its own.                                    *)
(***************************************************************************)
MaxTasks == 3

Task(k, st, created, result) ==
    [kind |-> k, st |-> st, created |-> created, result |-> result]

\* trigger_*_scraping, is_running false: the run task is added to the
\* background tasks, which start after the response is sent
TriggerAccepted ==
    /\ ~is_running
    /\ Len(tasks) < MaxTasks
    /\ \E k \in Kinds : tasks' = Append(tasks, Task(k, "queued", FALSE, "none"))
    /\ last_response' = "started"
    /\ UNCHANGED <<is_running, current_task, persisted>>
    /\ UNCHANGED <<runVars, fetchVars, parseVars>>

\* trigger_*_scraping, is_running true: HTTPException(409)
TriggerRejected ==
    /\ is_running
    /\ last_response' = "409"
    /\ UNCHANGED <<is_running, current_task, tasks, persisted>>
    /\ UNCHANGED <<runVars, fetchVars, parseVars>>

\* run_*_scraping begins: the flag and the task name are set
TaskStart ==
    \E t \in DOMAIN tasks :
        /\ tasks[t].st = "queued"
        /\ tasks' = [tasks EXCEPT ![t].st = "running"]
        /\ is_running' = TRUE
        /\ current_task' = tasks[t].kind
        /\ UNCHANGED <<persisted, last_response>>
        /\ UNCHANGED <<runVars, fetchVars, parseVars>>

\* _store_single_*: the SELECT by name sees the committed rows; with no row
\* the record is created and added to the task's session
TaskLookup ==
    \E t \in DOMAIN tasks :
        /\ tasks[t].st = "running"
        /\ tasks' = [tasks EXCEPT ![t].st = "looked",
                                  ![t].created = ~persisted[tasks[t].kind]]
        /\ UNCHANGED <<is_running, current_task, persisted, last_response>>
        /\ UNCHANGED <<runVars, fetchVars, parseVars>>

\* the commit of store_* (the INSERT of a name that is in the table by now
\* violates the unique constraint and raises), then the task's finally
TaskCommit ==
    \E t \in DOMAIN tasks :
        LET k == tasks[t].kind
            fails == tasks[t].created /\ persisted[k]
        IN  /\ tasks[t].st = "looked"
            /\ tasks' = [tasks EXCEPT ![t].st = "done",
                                      ![t].result = IF fails THEN "raised"
                                                    ELSE "stats"]
            /\ persisted' = [persisted EXCEPT ![k] = @ \/ tasks[t].created]
            /\ is_running' = FALSE
            /\ current_task' = "None"
            /\ UNCHANGED last_response
            /\ UNCHANGED <<runVars, fetchVars, parseVars>>

NextApi ==
    \/ TriggerAccepted
    \/ TriggerRejected
    \/ TaskStart
    \/ TaskLookup
    \/ TaskCommit

NextRun ==
    \/ StartRun
    \/ ScrapeTarget
    \/ BeginStore
    \/ CallStore
    \/ StoreRecord
    \/ CommitReturn

\* the run tasks, with what the environment can do to them
NextInfra ==
    \/ StartRun
    \/ ScrapeTarget
    \/ BeginStore
    \/ StoreRecord
    \/ CommitReturn
    \/ DbUnreachable
    \/ Cancel
    \/ Crash

\* the run tasks build ScraperConfig(max_retries=3)
RunMaxRetries == 3

Init ==
    /\ kind \in Kinds
    /\ InitRun
    /\ InitFetch
    /\ InitParse
    /\ InitApi
    /\ max_retries = RunMaxRetries

Spec == Init /\ [][NextRun]_vars

InitInfra ==
    /\ kind = "artifact"
    /\ InitRun
    /\ InitFetch
    /\ InitParse
    /\ InitApi
    /\ max_retries = RunMaxRetries

SpecInfra == InitInfra /\ [][NextInfra]_vars

InitCells ==
    /\ kind = "weapon"
    /\ InitRun
    /\ InitFetch
    /\ max_retries = RunMaxRetries
    /\ InitApi
    /\ cell \in Cells
    /\ parsed = NotParsed

SpecParse == InitCells /\ [][NextParse]_vars

InitTriggers ==
    /\ kind = "weapon"
    /\ InitRun
    /\ InitFetch
    /\ max_retries = RunMaxRetries
    /\ InitParse
    /\ InitApi

SpecApi == InitTriggers /\ [][NextApi]_vars

InitF ==
    /\ kind = "weapon"
    /\ InitRun
    /\ InitFetch
    /\ InitParse
    /\ InitApi

SpecFetch == InitF /\ [][NextFetch]_vars

(***************************************************************************)
(* Properties                                                              *)
(***************************************************************************)
Total(st) == st.created + st.updated + st.skipped + st.errors

\* a run task has run to its end and no other call has started since
RunEnded == pc = "idle" /\ runs > 0 /\ mode = "run"

\* a store_* call (of a run or a direct one) has ended
CallEnded == pc = "idle" /\ runs > 0

\* the latest reconcile of the call in progress (or just ended)
HasLatest == cur /= ""
Latest == last[cur]

\* every attribute of an extracted record is None or missing
AllNullOrAbsent(rec) == \A f \in DOMAIN rec : rec[f] \in {Null, Absent}

\* the row a created or updated record leaves in the table once committed
Persisted(e) == InsertRow(kind, e.after)

\* the row violates no NOT NULL constraint of its table
ValidRow(row) == \A f \in NotNull(kind) : InsertRow(kind, row).attrs[f] /= Null

\* C1: after a run over a list of targets, the counters store_* returned add
\* up to the number of targets, failed fetches and extractions included.
C1_CountersCoverTargets ==
    (RunEnded /\ returned.outcome = "stats")
        => Total(returned.stats) = Len(targets)

\* C2: a record reconciled as CREATE in one run is reconciled as SKIP when
\* the identical record comes again in the next run (never CREATE again,
\* never UPDATE, never an error).
C2_CreateThenSkip ==
    [][ \A n \in Names :
          ( /\ pc = "store" /\ mode = "run" /\ idx <= Len(scraped)
            /\ scraped[idx].name = n
            /\ last[n].cls = "created"
            /\ last[n].mode = "run"
            /\ last[n].run = runs - 1
            /\ last[n].rec = scraped[idx].attrs
            /\ idx' = idx + 1 )
          => last'[n].cls = "skipped" ]_vars

\* C3: reconciling a record whose attributes are all None or missing against
\* a persisted record does not count an update and leaves the persisted
\* record as it was.
C3_EmptyRecordIsSkip ==
    (HasLatest /\ Latest.before.exists /\ AllNullOrAbsent(Latest.rec))
        => (Latest.cls /= "updated" /\ Latest.after = Latest.before)

\* C4: an UPDATE keeps every persisted field (hp, atk and def of base_stats
\* included) whose value in the extracted record is None or missing.
C4_UpdateKeepsUnobserved ==
    (HasLatest /\ Latest.cls = "updated")
        => \A f \in DOMAIN Latest.after.attrs :
              Latest.rec[f] \in {Null, Absent}
                 => Latest.after.attrs[f] = Latest.before.attrs[f]

\* C5: an UPDATE is counted only when a persisted field other than the
\* updated timestamp changes its value.
C5_UpdateChangesAField ==
    (HasLatest /\ Latest.cls = "updated")
        => Latest.after.attrs /= Latest.before.attrs

\* the batch holds no natural key twice
DistinctNames(batch) ==
    \A i, j \in DOMAIN batch : i /= j => batch[i].name /= batch[j].name

\* C6: when a store_* call on a batch of records with distinct keys ends,
\* every create and update it applied for a record that is itself acceptable
\* to the table is in the table, whatever happened with the other records
\* of the batch.
C6_OtherWritesPersist ==
    (CallEnded /\ DistinctNames(scraped))
        => \A n \in Names :
              ( /\ last[n].cls \in {"created", "updated"}
                /\ last[n].run = runs
                /\ ValidRow(last[n].after) )
              => db[n] = Persisted(last[n])

\* C7: a run in which exactly one target's document is malformed and every
\* other target's document is well-formed ends with errors = 1.
C7_OneMalformedOneError ==
    ( /\ RunEnded
      /\ Cardinality({i \in DOMAIN outcomes : outcomes[i] = "malformed"}) = 1
      /\ \A i \in DOMAIN outcomes : outcomes[i] \in {"malformed", "ok"} )
        => (returned.outcome = "stats" /\ returned.stats.errors = 1)

\* C8: every run ends with store_* having returned the statistics and the
\* run having recorded them as its result.
C8_RunReturnsCounters ==
    RunEnded
        => ( /\ returned.outcome = "stats"
             /\ last_result.success = "true"
             /\ last_result.storage_stats = returned.stats )

(***************************************************************************)
(* Properties of fetch()                                                   *)
(***************************************************************************)
Attempts(evs) == {i \in DOMAIN evs : evs[i].type = "attempt"}
Waits(evs) == {i \in DOMAIN evs : evs[i].type = "wait"}

FetchReturned == fpc = "idle" /\ fetches > 0

\* C9: a fetch() in which every attempt fails makes exactly max_retries
\* attempts before it returns the failure.
C9_ExactlyNAttempts ==
    (FetchReturned /\ fresult = "None")
        => Cardinality(Attempts(events)) = max_retries

LastEvent == events[Len(events)]

\* C11: an attempt that fails (connection error, non-2xx status or timeout)
\* and is not the last allowed attempt is followed by a further attempt of
\* the same fetch().
C11_FailureIsRetried ==
    [][ ( /\ fpc = "attempt"
          /\ error_count' = error_count + 1
          /\ attempt < max_retries - 1 )
        => (fpc' = "attempt" /\ attempt' = attempt + 1) ]_vars

\* C12: fetch() ends every call by returning a value, the text or None, and
\* never by raising: None exactly when its last attempt failed, whatever the
\* exception of that attempt was.
C12_FetchReturnsValue ==
    FetchReturned
        => /\ fresult \in {"text", "None"}
           /\ fresult = "None" <=> LastEvent.type \in {"client_error", "error"}
           /\ fresult = "text" <=> LastEvent.type = "ok"

\* a fetch() whose attempt ended in an exception other than
\* aiohttp.ClientError has returned
C12_Witness ==
    FetchReturned /\ LastEvent.type = "error" /\ fresult = "None"

\* C19: the statistics get_stats() gives for the run's scraper_stats equal
\* the numbers of HTTP attempts and of failed attempts fetch() has made.
C19_StatsCountAttempts ==
    FetchReturned
        => /\ get_stats.requests = http.attempts
           /\ get_stats.errors = http.failures

\* C20: every call of the rate limiter sleeps at least min_delay_seconds,
\* the first call of a scraper and a call made after 1/requests_per_second
\* has passed included.
C20_AlwaysMinDelay ==
    \A w \in Waits(events) : events[w].val >= MinDelaySeconds

(***************************************************************************)
(* The weapon scenario                                                     *)
(***************************************************************************)
\* the records _extract_weapon_data gives for the documents of the scenario
Rec46 == Overlay(WeaponBlank, [weapon_type |-> 1, rarity |-> 5, base_attack |-> 46])
Rec48 == Overlay(WeaponBlank, [weapon_type |-> 1, rarity |-> 5, base_attack |-> 48])

\* the record of a document that shows the rarity and the base attack and
\* nothing else (no weapon type keyword in the card)
Rec46Only == Overlay(WeaponBlank, [rarity |-> 5, base_attack |-> 46])

\* a run over the one target "Alpha" has ended, having extracted rec
ScenarioRun(rec) ==
    /\ kind = "weapon"
    /\ RunEnded
    /\ targets = <<"Alpha">>
    /\ outcomes = <<"ok">>
    /\ last["Alpha"].run = runs
    /\ last["Alpha"].rec = rec

OnlyCounted(c) == returned.outcome = "stats" /\ returned.stats = [ZeroStats EXCEPT ![c] = 1]

\* C13 as claimed, first run: with no row for "Alpha", a run whose document
\* yields rarity 5 and base_attack 46 (and nothing else) ends with
\* created = 1 and a persisted row with rarity 5 and base_attack 46.
C13_ScenarioAsStated ==
    (ScenarioRun(Rec46Only) /\ ~last["Alpha"].before.exists)
        => /\ OnlyCounted("created")
           /\ db["Alpha"].exists
           /\ db["Alpha"].attrs["rarity"] = 5
           /\ db["Alpha"].attrs["base_attack"] = 46

\* C13 as amended: the document yields weapon_type as well.  With no row
\* for "Alpha" the run ends with created = 1 and the row persisted with
\* rarity 5 and base_attack 46; a run with the same document against that
\* row ends with skipped = 1 and the row as it was; a run whose document
\* yields base_attack 48 against that row ends with updated = 1, persisted
\* base_attack 48 and rarity 5.
C13_WeaponScenario ==
    /\ (ScenarioRun(Rec46) /\ ~last["Alpha"].before.exists)
          => /\ OnlyCounted("created")
             /\ db["Alpha"].exists
             /\ db["Alpha"].attrs["rarity"] = 5
             /\ db["Alpha"].attrs["base_attack"] = 46
    /\ \A rec \in {Rec46, Rec48} :
          ( /\ ScenarioRun(rec)
            /\ last["Alpha"].before.exists
            /\ last["Alpha"].before.attrs = _create_weapon(Rec46) )
          => IF rec = Rec46
             THEN /\ OnlyCounted("skipped")
                  /\ db["Alpha"] = last["Alpha"].before
             ELSE /\ OnlyCounted("updated")
                  /\ db["Alpha"].attrs["base_attack"] = 48
                  /\ db["Alpha"].attrs["rarity"] = 5

\* the third run of the scenario has ended: the row created in run 1 and
\* left alone in run 2 has been reconciled with the 48 document in run 3
C13_Witness ==
    /\ ScenarioRun(Rec48)
    /\ runs = 3
    /\ last["Alpha"].before.exists
    /\ last["Alpha"].before.attrs = _create_weapon(Rec46)
    /\ last["Alpha"].before.updated_at = 1
    /\ last["Alpha"].cls = "updated"

\* the targets of the current run for which scrape_* returned None
FailedTargets == {i \in DOMAIN outcomes : outcomes[i] \in {"nofetch", "raised"}}

\* C14: a run counts one error for every target whose fetch or extraction
\* failed.
C14_FailedTargetCountsError ==
    (RunEnded /\ returned.outcome = "stats")
        => returned.stats.errors >= Cardinality(FailedTargets)

\* C18: in a run, the reconcile of a target whose record was extracted has
\* happened by the time a later target of the list has been fetched.
C18_ReconcileBeforeNextFetch ==
    (mode = "run" /\ pc \in {"scrape", "store"})
        => \A i \in DOMAIN outcomes :
              (i < Len(outcomes) /\ outcomes[i] \in {"ok", "malformed"})
                 => ( /\ last[targets[i]].cls /= "none"
                      /\ last[targets[i]].run = runs )

(***************************************************************************)
(* Properties of runs under faults of the environment                      *)
(***************************************************************************)
\* the records of the current call whose lookup met the unreachable database
InfraFailures == {n \in Names : last[n].cls /= "none" /\ last[n].run = runs /\ last[n].infra}

\* C15: once the database is unreachable the run stops at the first record
\* that meets it: no second record is attempted and counted as an error.
C15_AbortOnUnreachable ==
    Cardinality(InfraFailures) <= 1

\* the creates and updates of the current run, acceptable to the table, that
\* store_* applied for the names in S
AppliedWrites(S) ==
    {n \in S : /\ last[n].cls \in {"created", "updated"}
               /\ last[n].run = runs
               /\ ValidRow(last[n].after)}

\* C16: after a run was cancelled, the creates and updates applied before
\* the cancellation are in the table.
C16_CancelKeepsWrites ==
    (pc = "idle" /\ returned.outcome = "cancelled")
        => \A n \in AppliedWrites(Names) : db[n] = Persisted(last[n])

\* C17: after a crash during a run, every create and update applied before
\* the record that was being written last is in the table.
C17_CrashLosesAtMostOne ==
    (pc = "idle" /\ returned.outcome = "crashed")
        => \A n \in AppliedWrites(Names \ {cur}) : db[n] = Persisted(last[n])

(***************************************************************************)
(* Properties of the store                                                 *)
(***************************************************************************)
\* C21: no step removes a row from the table: the set of persisted natural
\* keys never shrinks.
C21_KeysNeverShrink ==
    [][ \A n \in Names : db[n].exists => db'[n].exists ]_vars

\* a call has ended while the table holds a row written by an earlier call
C21_Witness ==
    /\ CallEnded
    /\ runs >= 2
    /\ \E n \in Names : db[n].exists /\ db[n].updated_at < runs

\* C23: a run that reconciles the record of a document with none of the
\* expected containers against a persisted row leaves every attribute of the
\* row as it was.
C23_MalformedKeepsRow ==
    ( /\ HasLatest
      /\ Latest.mode = "run"
      /\ Latest.before.exists
      /\ Latest.rec = ExtractData(kind, MalformedDoc, cur).attrs )
        => Latest.after.attrs = Latest.before.attrs

\* the record equals the persisted weapon in every compared field and
\* differs from it in some other field
DiffersOutsideCompared(rec, attrs) ==
    /\ \A f \in WeaponCompare : rec[f] = attrs[f]
    /\ \E f \in WeaponFields \ WeaponCompare : rec[f] /= attrs[f]

\* C24: a weapon record that differs from the persisted weapon only in
\* fields outside rarity, weapon_type, base_attack and description is
\* classified SKIP and nothing of it is written.
C24_OnlySignificantFields ==
    ( /\ kind = "weapon"
      /\ HasLatest
      /\ Latest.before.exists
      /\ DiffersOutsideCompared(Latest.rec, Latest.before.attrs) )
        => (Latest.cls = "skipped" /\ Latest.after = Latest.before)

\* a weapon record with a secondary_stat the persisted weapon does not have
\* has been reconciled
C24_Witness ==
    /\ kind = "weapon"
    /\ HasLatest
    /\ Latest.before.exists
    /\ DiffersOutsideCompared(Latest.rec, Latest.before.attrs)
    /\ Latest.rec["secondary_stat"] = 1
    /\ Latest.before.attrs["secondary_stat"] = Null

\* C29: the statistics a store_* call returns add up to the length of the
\* list passed to that call.
C29_StatsOfThisCall ==
    (CallEnded /\ returned.outcome = "stats")
        => Total(returned.stats) = Len(scraped)

\* C30: within one batch no natural key is given to db.add() twice, also
\* when each of the records is acceptable to the table: a second record of
\* a key is found by the lookup, not created again.
C30_OneCreatePerKey ==
    \A i, j \in DOMAIN pending :
        (i < j /\ ValidRow(pending[i].row) /\ ValidRow(pending[j].row))
            => pending[i].name /= pending[j].name

(***************************************************************************)
(* The backoff of fetch()                                                  *)
(***************************************************************************)
\* C25: the sleep after failed attempt k (from 0) is
\* retry_delay_seconds * retry_backoff_factor ^ k, it is made for every
\* failed attempt k < max_retries - 1 that fetch() retries, and no sleep
\* follows the final failed attempt.
C25_BackoffValues ==
    \A i \in DOMAIN events :
        /\ events[i].type = "backoff"
              => /\ events[i - 1].type = "client_error"
                 /\ events[i - 1].val < max_retries - 1
                 /\ events[i].val =
                       RetryDelaySeconds * Pow(RetryBackoffFactor, events[i - 1].val)
        /\ events[i].type = "client_error"
              => IF events[i].val < max_retries - 1
                 THEN i < Len(events) /\ events[i + 1].type = "backoff"
                 ELSE i = Len(events)
        /\ events[i].type = "error" => i = Len(events)

\* a fetch() with max_retries 3 has failed three times: sleeps of 2 and 4,
\* none after the last failure
C25_Witness ==
    /\ max_retries = 3
    /\ FetchReturned
    /\ fresult = "None"
    /\ LastEvent = Ev("client_error", 2)
    /\ \E i, j \in DOMAIN events :
          /\ i < j
          /\ events[i] = Ev("backoff", 2)
          /\ events[j] = Ev("backoff", 4)

(***************************************************************************)
(* Properties of the numeric extraction                                    *)
(***************************************************************************)
\* the cell without its thousands separators and percent signs
Stripped(text) == Remove(text, {",", "%"})

\* digits, with at most one point between two of them
IsNumeral(m) ==
    /\ m /= <<>>
    /\ \A i \in DOMAIN m : m[i] \in Digits \cup {"."}
    /\ Cardinality({i \in DOMAIN m : m[i] = "."}) <= 1
    /\ m[1] \in Digits
    /\ m[Len(m)] \in Digits

IsInteger(m) == m /= <<>> /\ \A i \in DOMAIN m : m[i] \in Digits

\* a numeric cell as the source shows it: a number with commas between
\* digits of its integer part and possibly a percent sign at its end
IsNumericCell(text) ==
    /\ IsNumeral(Stripped(text))
    /\ \A i \in DOMAIN text :
          /\ text[i] = "%" => i = Len(text)
          /\ text[i] = ","
                => /\ 1 < i /\ i < Len(text)
                   /\ text[i - 1] \in Digits
                   /\ text[i + 1] \in Digits
                   /\ \A j \in 1..i : text[j] /= "."

\* C22: a cell that is a number written with thousands separators or a
\* percent sign is parsed to that number by every extractor; the weapon's
\* base attack, an integer, in particular.
C22_SeparatorsStripped ==
    (parsed.done /\ IsNumericCell(cell))
        => /\ parsed.stat = PyNumber(Stripped(cell))
           /\ PyNumber(parsed.secondary_stat_value) = PyNumber(Stripped(cell))
           /\ IsInteger(Stripped(cell))
                 => parsed.base_attack = PyNumber(Stripped(cell))

(***************************************************************************)
(* Properties of the triggers and of concurrent runs                       *)
(***************************************************************************)
\* the task has been accepted and has not ended
Unfinished(t) == tasks[t].st /= "done"

\* run_*_scraping is executing for the task
Executing(t) == tasks[t].st \in {"running", "looked"}

\* C26: two tasks never both find the key missing and both create it.
C26_CreatesSerialized ==
    \A t, u \in DOMAIN tasks :
        (t /= u /\ tasks[t].kind = tasks[u].kind)
            => ~(tasks[t].created /\ tasks[u].created)

\* C27: from the acceptance of a trigger to the end of its run no other
\* trigger is accepted: at most one task is queued or executing.
C27_OneRunAtATime ==
    Cardinality({t \in DOMAIN tasks : Unfinished(t)}) <= 1

\* C28: is_running is true while a task is executing; when a run has ended
\* and no task is executing, is_running is false and current_task is None.
C28_FlagTracksRun ==
    /\ (\E t \in DOMAIN tasks : Executing(t)) => is_running
    /\ ( /\ \E t \in DOMAIN tasks : tasks[t].st = "done"
         /\ \A t \in DOMAIN tasks : ~Executing(t) )
          => (~is_running /\ current_task = "None")

====
